---- MODULE Spec2Model ----
(***************************************************************************)
(* Model of the MBO -> MBP-10 converter: PriceLevel (include/order.h),     *)
(* OrderBook (src/orderbook.cpp), MBPRecord::FromOrderBook                 *)
(* (src/records.cpp) and the MBOProcessor drive loop                       *)
(* (src/mbo_processor.cpp).                                                *)
(*                                                                         *)
(* Size is uint32_t, so PriceLevel::total_size is computed modulo 2^32.    *)
(* Sizes are counted here in units of 2^28: every modelled size is a whole *)
(* number of units, and on such values arithmetic modulo 2^32 is exactly   *)
(* arithmetic modulo 16 units (SizeMod).                                   *)
(***************************************************************************)
EXTENDS Integers, Sequences, FiniteSets, TLC

\* ------------------------------------------------------------------ bounds
MaxPrice == 2
MaxEvents == 3

\* --------------------------------------------------------------- constants
\* types.h: kUndefPrice = INT64_MAX; the largest integer TLC represents
\* stands for it (it only has to differ from and exceed every real price).
kUndefPrice == 2147483647
MBP_LEVELS == 10
\* types.h: Size = uint32_t; 2^32 expressed in units of 2^28.
SizeMod == 16

BID_SIDE == "B"
ASK_SIDE == "A"
NEUTRAL_SIDE == "N"
ACTION_ADD == "A"
ACTION_CANCEL == "C"
ACTION_MODIFY == "M"
ACTION_TRADE == "T"
ACTION_FILL == "F"
ACTION_CLEAR == "R"
ACTION_NONE == "N"

\* ------------------------------------------------------------------ inputs
\* "X" stands for any character outside the known set.
ActionChars == {ACTION_ADD, ACTION_CANCEL, ACTION_MODIFY, ACTION_TRADE,
                ACTION_FILL, ACTION_CLEAR, ACTION_NONE, "X"}
SideChars == {BID_SIDE, ASK_SIDE, NEUTRAL_SIDE, "X"}
\* Two order identifiers: enough for two orders to share a level, to rest on
\* opposite sides, and for one to be known while the other is not.
OrderIds == {1, 2}
Prices == 1..MaxPrice
\* Two ordinary sizes: enough for a Modify to keep or to change the size of
\* an order, and for two orders of a level to differ in size.
Sizes == {1, 2}
\* 2^31, the size two orders of which make a 32-bit total wrap.
HalfRange == SizeMod \div 2

MBORecord(a, s, p, sz, oid) ==
    [action |-> a, side |-> s, price |-> p, size |-> sz, order_id |-> oid]

\* Every record the parser can hand over, within the bounds; price 0 and
\* size 0 are the values record validation rejects.
MBORecords ==
    {MBORecord(a, s, p, sz, oid) :
        a \in ActionChars, s \in SideChars, p \in {0} \cup Prices,
        sz \in {0, HalfRange} \cup Sizes, oid \in OrderIds}

\* The records the input stream is drawn from.  A field the code only
\* copies into the output line takes a single value: everything but
\* order_id for a Cancel, price and size once the side is Neutral (the
\* level lookup throws on the side alone), every field for Trade, Fill,
\* None and Clear.  A rejected record is represented once per reason,
\* and the size 2^31 is carried by Adds to one bid level.
RestingRecords ==
    {MBORecord(a, s, p, sz, oid) :
        a \in {ACTION_ADD, ACTION_MODIFY}, s \in {BID_SIDE, ASK_SIDE},
        p \in Prices, sz \in Sizes, oid \in OrderIds}
NeutralRecords ==
    {MBORecord(a, NEUTRAL_SIDE, 1, 1, oid) :
        a \in {ACTION_ADD, ACTION_MODIFY}, oid \in OrderIds}
LargeRecords ==
    {MBORecord(ACTION_ADD, BID_SIDE, 1, HalfRange, oid) : oid \in OrderIds}
CancelRecords ==
    {MBORecord(ACTION_CANCEL, BID_SIDE, 1, 1, oid) : oid \in OrderIds}
TransparentRecords ==
    {MBORecord(a, NEUTRAL_SIDE, 1, 1, 1) :
        a \in {ACTION_TRADE, ACTION_FILL, ACTION_NONE}}
ClearRecords ==
    {MBORecord(ACTION_CLEAR, s, 0, 0, 1) : s \in {NEUTRAL_SIDE, "X"}}
RejectedRecords ==
    {MBORecord("X", BID_SIDE, 1, 1, 1), MBORecord(ACTION_ADD, "X", 1, 1, 1),
     MBORecord(ACTION_ADD, BID_SIDE, 0, 1, 1),
     MBORecord(ACTION_MODIFY, BID_SIDE, 1, 0, 1)}
StreamRecords ==
    RestingRecords \cup LargeRecords \cup NeutralRecords \cup CancelRecords
        \cup TransparentRecords \cup ClearRecords \cup RejectedRecords

\* ---------------------------------------------------- finite maps (std::map)
EmptyMap == [k \in {} |-> 0]
MapPut(m, k, v) == [x \in (DOMAIN m) \cup {k} |-> IF x = k THEN v ELSE m[x]]
MapErase(m, k) == [x \in (DOMAIN m) \ {k} |-> m[x]]

\* ------------------------------------------------------------- utils.cpp
IsValidPrice(price) == price # kUndefPrice /\ price > 0
IsValidSize(size) == size > 0
IsValidSide(side) == side = BID_SIDE \/ side = ASK_SIDE \/ side = NEUTRAL_SIDE
IsValidAction(action) ==
    \/ action = ACTION_ADD \/ action = ACTION_CANCEL
    \/ action = ACTION_MODIFY \/ action = ACTION_TRADE
    \/ action = ACTION_FILL \/ action = ACTION_CLEAR
    \/ action = ACTION_NONE

\* MBORecord::IsValid
IsValid(record) ==
    /\ IsValidAction(record.action)
    /\ IsValidSide(record.side)
    /\ (record.action = ACTION_CLEAR \/ IsValidPrice(record.price))
    /\ (record.action = ACTION_CLEAR \/ IsValidSize(record.size))

\* ------------------------------------------------------------ PriceLevel
\* PriceLevel(): price{kUndefPrice}, total_size{0}, order_count{0}, no orders
DefaultPriceLevel ==
    [price |-> kUndefPrice, total_size |-> 0, order_count |-> 0,
     orders |-> EmptyMap]

PriceLevel_IsEmpty(level) ==
    level.price = kUndefPrice \/ level.order_count = 0

\* orders[order_id] = size; total_size += size; order_count++
PriceLevel_AddOrder(level, order_id, size) ==
    [level EXCEPT !.orders = MapPut(@, order_id, size),
                  !.total_size = (@ + size) % SizeMod,
                  !.order_count = @ + 1]

PriceLevel_RemoveOrder(level, order_id) ==
    IF order_id \in DOMAIN level.orders
    THEN LET l1 == [level EXCEPT
                      !.total_size = (@ + SizeMod - level.orders[order_id]) % SizeMod,
                      !.order_count = @ - 1,
                      !.orders = MapErase(@, order_id)]
         IN  IF l1.order_count = 0
             THEN [l1 EXCEPT !.price = kUndefPrice, !.total_size = 0]
             ELSE l1
    ELSE level

PriceLevel_ModifyOrder(level, order_id, new_size) ==
    IF order_id \in DOMAIN level.orders
    THEN [level EXCEPT
            !.total_size = (((@ + SizeMod - level.orders[order_id]) % SizeMod)
                            + new_size) % SizeMod,
            !.orders = MapPut(@, order_id, new_size)]
    ELSE level

PriceLevel_HasOrder(level, order_id) == order_id \in DOMAIN level.orders

\* CompactPriceLevel(const PriceLevel&)
CompactPriceLevel(level) ==
    [price |-> level.price, size |-> level.total_size, count |-> level.order_count]

\* -------------------------------------------------------------- OrderBook
\* OrderBook(): empty side books, empty order index, has_changes_{false}
NewOrderBook ==
    [bids_ |-> EmptyMap, asks_ |-> EmptyMap, order_lookup_ |-> EmptyMap,
     has_changes_ |-> FALSE]

OrderLocation(p, s) == [price |-> p, side |-> s]

\* The outcome of a call that may throw: the book as the call left it, and
\* whether an exception is propagating.
Returned(b) == [book |-> b, threw |-> FALSE]
Thrown(b) == [book |-> b, threw |-> TRUE]

MarkChanged(b) == [b EXCEPT !.has_changes_ = TRUE]
HasChanges(b) == b.has_changes_
ResetChanges(b) == [b EXCEPT !.has_changes_ = FALSE]

\* The level a PriceLevel& obtained for (side, price) refers to, and the
\* write through that reference.
LevelRef(b, side, price) ==
    IF side = BID_SIDE THEN b.bids_[price] ELSE b.asks_[price]
StoreLevel(b, side, price, level) ==
    IF side = BID_SIDE
    THEN [b EXCEPT !.bids_ = MapPut(@, price, level)]
    ELSE [b EXCEPT !.asks_ = MapPut(@, price, level)]

\* GetOrCreateLevel taking every side other than Bid for Ask.
GetOrCreateLevel_NeutralIsAsk(b, side, price) ==
    IF side = BID_SIDE
    THEN LET level == IF price \in DOMAIN b.bids_ THEN b.bids_[price]
                      ELSE DefaultPriceLevel
             l1 == IF level.price = kUndefPrice
                   THEN [level EXCEPT !.price = price] ELSE level
         IN  Returned([b EXCEPT !.bids_ = MapPut(@, price, l1)])
    ELSE LET level == IF price \in DOMAIN b.asks_ THEN b.asks_[price]
                      ELSE DefaultPriceLevel
             l1 == IF level.price = kUndefPrice
                   THEN [level EXCEPT !.price = price] ELSE level
         IN  Returned([b EXCEPT !.asks_ = MapPut(@, price, l1)])

\* operator[] default-constructs a missing level; its price is then set.
GetOrCreateLevel(b, side, price) ==
    IF side = BID_SIDE
    THEN LET level == IF price \in DOMAIN b.bids_ THEN b.bids_[price]
                      ELSE DefaultPriceLevel
             l1 == IF level.price = kUndefPrice
                   THEN [level EXCEPT !.price = price] ELSE level
         IN  Returned([b EXCEPT !.bids_ = MapPut(@, price, l1)])
    ELSE IF side = ASK_SIDE
    THEN LET level == IF price \in DOMAIN b.asks_ THEN b.asks_[price]
                      ELSE DefaultPriceLevel
             l1 == IF level.price = kUndefPrice
                   THEN [level EXCEPT !.price = price] ELSE level
         IN  Returned([b EXCEPT !.asks_ = MapPut(@, price, l1)])
    ELSE Thrown(b)

RemoveEmptyLevel(b, side, price) ==
    IF side = BID_SIDE
    THEN IF price \in DOMAIN b.bids_ /\ PriceLevel_IsEmpty(b.bids_[price])
         THEN [b EXCEPT !.bids_ = MapErase(@, price)] ELSE b
    ELSE IF side = ASK_SIDE
    THEN IF price \in DOMAIN b.asks_ /\ PriceLevel_IsEmpty(b.asks_[price])
         THEN [b EXCEPT !.asks_ = MapErase(@, price)] ELSE b
    ELSE b

\* AddOrder without the check that the order is new.
AddOrder_NoDuplicateCheck(b, record) ==
    LET g == GetOrCreateLevel(b, record.side, record.price)
    IN  IF g.threw THEN g
        ELSE LET b1 == StoreLevel(g.book, record.side, record.price,
                         PriceLevel_AddOrder(
                             LevelRef(g.book, record.side, record.price),
                             record.order_id, record.size))
                 b2 == [b1 EXCEPT !.order_lookup_ =
                          MapPut(@, record.order_id,
                                 OrderLocation(record.price, record.side))]
             IN  Returned(MarkChanged(b2))

AddOrder(b, record) ==
    IF record.order_id \in DOMAIN b.order_lookup_
    THEN Thrown(b)
    ELSE LET g == GetOrCreateLevel(b, record.side, record.price)
         IN  IF g.threw THEN g
             ELSE LET b1 == StoreLevel(g.book, record.side, record.price,
                              PriceLevel_AddOrder(
                                  LevelRef(g.book, record.side, record.price),
                                  record.order_id, record.size))
                      b2 == [b1 EXCEPT !.order_lookup_ =
                               MapPut(@, record.order_id,
                                      OrderLocation(record.price, record.side))]
                  IN  Returned(MarkChanged(b2))

\* CancelOrder looking up the level of the record before the order.
CancelOrder_CreatesLevel(b, record) ==
    IF record.order_id \notin DOMAIN b.order_lookup_
    THEN GetOrCreateLevel(b, record.side, record.price)
    ELSE LET price == b.order_lookup_[record.order_id].price
             side == b.order_lookup_[record.order_id].side
             g == GetOrCreateLevel(b, side, price)
         IN  IF g.threw THEN g
             ELSE LET b1 == StoreLevel(g.book, side, price,
                              PriceLevel_RemoveOrder(
                                  LevelRef(g.book, side, price), record.order_id))
                      b2 == [b1 EXCEPT !.order_lookup_ =
                               MapErase(@, record.order_id)]
                      b3 == RemoveEmptyLevel(b2, side, price)
                  IN  Returned(MarkChanged(b3))

\* CancelOrder with the change mark also set when the order is unknown.
CancelOrder_MarksUnknown(b, record) ==
    IF record.order_id \notin DOMAIN b.order_lookup_
    THEN Returned(MarkChanged(b))
    ELSE LET price == b.order_lookup_[record.order_id].price
             side == b.order_lookup_[record.order_id].side
             g == GetOrCreateLevel(b, side, price)
         IN  IF g.threw THEN g
             ELSE LET b1 == StoreLevel(g.book, side, price,
                              PriceLevel_RemoveOrder(
                                  LevelRef(g.book, side, price), record.order_id))
                      b2 == [b1 EXCEPT !.order_lookup_ =
                               MapErase(@, record.order_id)]
                      b3 == RemoveEmptyLevel(b2, side, price)
                  IN  Returned(MarkChanged(b3))

CancelOrder(b, record) ==
    IF record.order_id \notin DOMAIN b.order_lookup_
    THEN Returned(b)
    ELSE LET price == b.order_lookup_[record.order_id].price
             side == b.order_lookup_[record.order_id].side
             g == GetOrCreateLevel(b, side, price)
         IN  IF g.threw THEN g
             ELSE LET b1 == StoreLevel(g.book, side, price,
                              PriceLevel_RemoveOrder(
                                  LevelRef(g.book, side, price), record.order_id))
                      b2 == [b1 EXCEPT !.order_lookup_ =
                               MapErase(@, record.order_id)]
                      b3 == RemoveEmptyLevel(b2, side, price)
                  IN  Returned(MarkChanged(b3))

\* ModifyOrder ignoring a record whose order is unknown.
ModifyOrder_IgnoresUnknown(b, record) ==
    IF record.order_id \notin DOMAIN b.order_lookup_
    THEN Returned(b)
    ELSE LET old_price == b.order_lookup_[record.order_id].price
             old_side == b.order_lookup_[record.order_id].side
         IN  IF old_price # record.price \/ old_side # record.side
             THEN LET g1 == GetOrCreateLevel(b, old_side, old_price)
                  IN  IF g1.threw THEN g1
                      ELSE LET b1 == StoreLevel(g1.book, old_side, old_price,
                                       PriceLevel_RemoveOrder(
                                           LevelRef(g1.book, old_side, old_price),
                                           record.order_id))
                               b2 == RemoveEmptyLevel(b1, old_side, old_price)
                               g2 == GetOrCreateLevel(b2, record.side, record.price)
                           IN  IF g2.threw THEN g2
                               ELSE LET b3 == StoreLevel(g2.book, record.side,
                                                record.price,
                                                PriceLevel_AddOrder(
                                                    LevelRef(g2.book, record.side,
                                                             record.price),
                                                    record.order_id, record.size))
                                        b4 == [b3 EXCEPT !.order_lookup_ =
                                                 MapPut(@, record.order_id,
                                                        OrderLocation(record.price,
                                                                      record.side))]
                                    IN  Returned(MarkChanged(b4))
             ELSE LET g == GetOrCreateLevel(b, record.side, record.price)
                  IN  IF g.threw THEN g
                      ELSE Returned(MarkChanged(
                               StoreLevel(g.book, record.side, record.price,
                                   PriceLevel_ModifyOrder(
                                       LevelRef(g.book, record.side, record.price),
                                       record.order_id, record.size))))

ModifyOrder(b, record) ==
    IF record.order_id \notin DOMAIN b.order_lookup_
    THEN AddOrder(b, record)
    ELSE LET old_price == b.order_lookup_[record.order_id].price
             old_side == b.order_lookup_[record.order_id].side
         IN  IF old_price # record.price \/ old_side # record.side
             THEN LET g1 == GetOrCreateLevel(b, old_side, old_price)
                  IN  IF g1.threw THEN g1
                      ELSE LET b1 == StoreLevel(g1.book, old_side, old_price,
                                       PriceLevel_RemoveOrder(
                                           LevelRef(g1.book, old_side, old_price),
                                           record.order_id))
                               b2 == RemoveEmptyLevel(b1, old_side, old_price)
                               g2 == GetOrCreateLevel(b2, record.side, record.price)
                           IN  IF g2.threw THEN g2
                               ELSE LET b3 == StoreLevel(g2.book, record.side,
                                                record.price,
                                                PriceLevel_AddOrder(
                                                    LevelRef(g2.book, record.side,
                                                             record.price),
                                                    record.order_id, record.size))
                                        b4 == [b3 EXCEPT !.order_lookup_ =
                                                 MapPut(@, record.order_id,
                                                        OrderLocation(record.price,
                                                                      record.side))]
                                    IN  Returned(MarkChanged(b4))
             ELSE LET g == GetOrCreateLevel(b, record.side, record.price)
                  IN  IF g.threw THEN g
                      ELSE Returned(MarkChanged(
                               StoreLevel(g.book, record.side, record.price,
                                   PriceLevel_ModifyOrder(
                                       LevelRef(g.book, record.side, record.price),
                                       record.order_id, record.size))))

\* Clear that leaves the order index alone.
Clear_KeepsIndex(b) ==
    MarkChanged([b EXCEPT !.bids_ = EmptyMap, !.asks_ = EmptyMap])

Clear(b) ==
    MarkChanged([b EXCEPT !.bids_ = EmptyMap, !.asks_ = EmptyMap,
                          !.order_lookup_ = EmptyMap])

\* Apply marking the book changed on a Trade, Fill or None.
Apply_TransparentMarks(b, record) ==
    IF ~IsValid(record) THEN Thrown(b)
    ELSE IF record.action = ACTION_ADD THEN AddOrder(b, record)
    ELSE IF record.action = ACTION_CANCEL THEN CancelOrder(b, record)
    ELSE IF record.action = ACTION_MODIFY THEN ModifyOrder(b, record)
    ELSE IF record.action = ACTION_CLEAR THEN Returned(Clear(b))
    ELSE IF record.action \in {ACTION_TRADE, ACTION_FILL, ACTION_NONE}
    THEN Returned(MarkChanged(b))
    ELSE Thrown(b)

Apply(b, record) ==
    IF ~IsValid(record) THEN Thrown(b)
    ELSE IF record.action = ACTION_ADD THEN AddOrder(b, record)
    ELSE IF record.action = ACTION_CANCEL THEN CancelOrder(b, record)
    ELSE IF record.action = ACTION_MODIFY THEN ModifyOrder(b, record)
    ELSE IF record.action = ACTION_CLEAR THEN Returned(Clear(b))
    ELSE IF record.action \in {ACTION_TRADE, ACTION_FILL, ACTION_NONE}
    THEN Returned(b)
    ELSE Thrown(b)

\* std::map iteration order: the keys from the comparator's first one on.
RECURSIVE Descending(_)
Descending(S) ==
    IF S = {} THEN <<>>
    ELSE LET m == CHOOSE x \in S : \A y \in S : y <= x
         IN  <<m>> \o Descending(S \ {m})
RECURSIVE Ascending(_)
Ascending(S) ==
    IF S = {} THEN <<>>
    ELSE LET m == CHOOSE x \in S : \A y \in S : x <= y
         IN  <<m>> \o Ascending(S \ {m})

\* The loop of GetTopBids / GetTopAsks over the keys in iteration order.
RECURSIVE TopLevels(_, _, _, _)
TopLevels(side_book, keys, levels, cache) ==
    IF keys = <<>> \/ Len(cache) >= levels THEN cache
    ELSE TopLevels(side_book, Tail(keys), levels,
                   IF ~PriceLevel_IsEmpty(side_book[Head(keys)])
                   THEN Append(cache, CompactPriceLevel(side_book[Head(keys)]))
                   ELSE cache)

\* GetTopBids iterating from the lowest price.
GetTopBids_Ascending(b, levels) ==
    TopLevels(b.bids_, Ascending(DOMAIN b.bids_), levels, <<>>)

GetTopBids(b, levels) ==
    TopLevels(b.bids_, Descending(DOMAIN b.bids_), levels, <<>>)
GetTopAsks(b, levels) ==
    TopLevels(b.asks_, Ascending(DOMAIN b.asks_), levels, <<>>)

\* CompactPriceLevel(): price{kUndefPrice}, size{0}, count{0}
DefaultCompactPriceLevel == [price |-> kUndefPrice, size |-> 0, count |-> 0]

\* The level at begin() of each side book, when it is not empty.
GetBestBidAsk(b) ==
    LET best_bid ==
            IF DOMAIN b.bids_ # {}
               /\ ~PriceLevel_IsEmpty(b.bids_[Descending(DOMAIN b.bids_)[1]])
            THEN CompactPriceLevel(b.bids_[Descending(DOMAIN b.bids_)[1]])
            ELSE DefaultCompactPriceLevel
        best_ask ==
            IF DOMAIN b.asks_ # {}
               /\ ~PriceLevel_IsEmpty(b.asks_[Ascending(DOMAIN b.asks_)[1]])
            THEN CompactPriceLevel(b.asks_[Ascending(DOMAIN b.asks_)[1]])
            ELSE DefaultCompactPriceLevel
    IN  <<best_bid, best_ask>>

\* The sizes of the three maps, and the key at begin() of each side book.
GetStatistics(b) ==
    [total_bid_levels |-> Cardinality(DOMAIN b.bids_),
     total_ask_levels |-> Cardinality(DOMAIN b.asks_),
     total_orders |-> Cardinality(DOMAIN b.order_lookup_),
     best_bid |-> IF DOMAIN b.bids_ # {} THEN Descending(DOMAIN b.bids_)[1]
                  ELSE kUndefPrice,
     best_ask |-> IF DOMAIN b.asks_ # {} THEN Ascending(DOMAIN b.asks_)[1]
                  ELSE kUndefPrice]

\* The const queries as calls on the object: the book and the two mutable
\* caches (bid_levels_cache_, ask_levels_cache_) as the call leaves them,
\* and the value returned.
Caches(bid_levels_cache, ask_levels_cache) ==
    [bid_levels_cache_ |-> bid_levels_cache,
     ask_levels_cache_ |-> ask_levels_cache]
Called(b, caches, result) == [book |-> b, caches |-> caches, result |-> result]

\* std::vector::clear()
ClearCache(cache) == SubSeq(cache, 1, 0)

\* GetTopBids filling the cache without clearing it first.
Call_GetTopBids_NoClear(b, caches, levels) ==
    LET cache == TopLevels(b.bids_, Descending(DOMAIN b.bids_), levels,
                           caches.bid_levels_cache_)
    IN  Called(b, [caches EXCEPT !.bid_levels_cache_ = cache], cache)

\* bid_levels_cache_.clear(); the loop; return bid_levels_cache_
Call_GetTopBids(b, caches, levels) ==
    LET cache == TopLevels(b.bids_, Descending(DOMAIN b.bids_), levels,
                           ClearCache(caches.bid_levels_cache_))
    IN  Called(b, [caches EXCEPT !.bid_levels_cache_ = cache], cache)

Call_GetTopAsks(b, caches, levels) ==
    LET cache == TopLevels(b.asks_, Ascending(DOMAIN b.asks_), levels,
                           ClearCache(caches.ask_levels_cache_))
    IN  Called(b, [caches EXCEPT !.ask_levels_cache_ = cache], cache)

Call_GetBestBidAsk(b, caches) == Called(b, caches, GetBestBidAsk(b))
Call_GetStatistics(b, caches) == Called(b, caches, GetStatistics(b))

\* HasChanges clearing the flag it returns.
Call_HasChanges_Resets(b, caches) ==
    Called([b EXCEPT !.has_changes_ = FALSE], caches, b.has_changes_)

Call_HasChanges(b, caches) == Called(b, caches, HasChanges(b))
Call_ResetChanges(b, caches) == Called(ResetChanges(b), caches, TRUE)

\* -------------------------------------------------------------- MBPRecord
Slots == 0..(MBP_LEVELS - 1)

\* FromOrderBook leaving depth 0 for every action.
FromOrderBook_DepthZero(mbo_record, bids, asks) ==
    [rtype |-> 10,
     action |-> mbo_record.action,
     side |-> mbo_record.side,
     depth |-> 0,
     price |-> mbo_record.price,
     size |-> mbo_record.size,
     order_id |-> mbo_record.order_id,
     bid_prices |-> [i \in Slots |-> IF i < Len(bids) THEN bids[i + 1].price
                                     ELSE kUndefPrice],
     bid_sizes |-> [i \in Slots |-> IF i < Len(bids) THEN bids[i + 1].size ELSE 0],
     bid_counts |-> [i \in Slots |-> IF i < Len(bids) THEN bids[i + 1].count ELSE 0],
     ask_prices |-> [i \in Slots |-> IF i < Len(asks) THEN asks[i + 1].price
                                     ELSE kUndefPrice],
     ask_sizes |-> [i \in Slots |-> IF i < Len(asks) THEN asks[i + 1].size ELSE 0],
     ask_counts |-> [i \in Slots |-> IF i < Len(asks) THEN asks[i + 1].count ELSE 0]]

\* MBPRecord::FromOrderBook: metadata copied from the event, rtype 10,
\* depth 1 for a Cancel, slot i from bids[i] / asks[i] when present, and the
\* constructor's fill (kUndefPrice, 0, 0) otherwise.  (Sequences are
\* 1-based, so slot i reads element i + 1.)
FromOrderBook(mbo_record, bids, asks) ==
    [rtype |-> 10,
     action |-> mbo_record.action,
     side |-> mbo_record.side,
     depth |-> IF mbo_record.action = ACTION_CANCEL THEN 1 ELSE 0,
     price |-> mbo_record.price,
     size |-> mbo_record.size,
     order_id |-> mbo_record.order_id,
     bid_prices |-> [i \in Slots |-> IF i < Len(bids) THEN bids[i + 1].price
                                     ELSE kUndefPrice],
     bid_sizes |-> [i \in Slots |-> IF i < Len(bids) THEN bids[i + 1].size ELSE 0],
     bid_counts |-> [i \in Slots |-> IF i < Len(bids) THEN bids[i + 1].count ELSE 0],
     ask_prices |-> [i \in Slots |-> IF i < Len(asks) THEN asks[i + 1].price
                                     ELSE kUndefPrice],
     ask_sizes |-> [i \in Slots |-> IF i < Len(asks) THEN asks[i + 1].size ELSE 0],
     ask_counts |-> [i \in Slots |-> IF i < Len(asks) THEN asks[i + 1].count ELSE 0]]

\* ------------------------------------------------------------ MBOProcessor
\* mbo_processor.h: validate_output_{true}; main sets it to true as well.
validate_output_ == TRUE
\* mbo_processor.h: skip_first_record_{true}; main sets it to true as well.
\* No member function reads it.
skip_first_record_ == TRUE

\* The processor's members: [order_book_, mbp_record_count_, output_buffer_].
\* output_buffer_ holds, for every line appended, the index that starts it.
NewProcessor ==
    [order_book_ |-> NewOrderBook, mbp_record_count_ |-> 0,
     output_buffer_ |-> <<>>]

\* CreateMBPRecord asking for the best level of each side only.
CreateMBPRecord_BestOnly(p, mbo_record) ==
    FromOrderBook(mbo_record,
                  GetTopBids(p.order_book_, 1),
                  GetTopAsks(p.order_book_, 1))

CreateMBPRecord(p, mbo_record) ==
    FromOrderBook(mbo_record,
                  GetTopBids(p.order_book_, MBP_LEVELS),
                  GetTopAsks(p.order_book_, MBP_LEVELS))

\* ValidateMBPRecord without the loop over the levels.
ValidateMBPRecord_HeaderOnly(record) ==
    /\ record.rtype = 10
    /\ IsValidAction(record.action)
    /\ IsValidSide(record.side)

\* TRUE iff ValidateMBPRecord returns without throwing.
ValidateMBPRecord(record) ==
    /\ record.rtype = 10
    /\ IsValidAction(record.action)
    /\ IsValidSide(record.side)
    /\ \A i \in Slots :
         /\ record.bid_prices[i] # kUndefPrice =>
              ~(record.bid_sizes[i] = 0 \/ record.bid_counts[i] = 0)
         /\ record.ask_prices[i] # kUndefPrice =>
              ~(record.ask_sizes[i] = 0 \/ record.ask_counts[i] = 0)

\* [p, threw]: the line is appended with the current mbp_record_count_ as
\* its index unless validation throws first.
WriteMBPRecord(p, record) ==
    IF validate_output_ /\ ~ValidateMBPRecord(record)
    THEN [p |-> p, threw |-> TRUE]
    ELSE [p |-> [p EXCEPT !.output_buffer_ = Append(@, p.mbp_record_count_)],
          threw |-> FALSE]

NoRow == [rtype |-> 0]

\* The outcome of one ProcessRecord call: the members as the call left them,
\* whether it threw, has_changes_ as it stood when Apply (or Clear) had
\* returned, and the line written (NoRow when none was).
Outcome(p, threw, applied, dirty, row) ==
    [p |-> p, threw |-> threw, applied |-> applied, dirty |-> dirty, row |-> row]

\* HandleSpecialCase without the increment of mbp_record_count_.
HandleSpecialCase_NoCount(p, record) ==
    IF record.action = ACTION_CLEAR
    THEN LET p1 == [p EXCEPT !.order_book_ = Clear(@)]
             mbp_record == CreateMBPRecord(p1, record)
             w == WriteMBPRecord(p1, mbp_record)
         IN  [handled |-> TRUE,
              out |-> Outcome(w.p, w.threw, TRUE, HasChanges(p1.order_book_),
                              IF w.threw THEN NoRow ELSE mbp_record)]
    ELSE [handled |-> FALSE, out |-> Outcome(p, FALSE, FALSE, FALSE, NoRow)]

\* HandleSpecialCase honouring skip_first_record_: a Clear met before any
\* line was written is handled without clearing or writing.
HandleSpecialCase_SkipsFirst(p, record) ==
    IF record.action = ACTION_CLEAR
    THEN IF skip_first_record_ /\ p.mbp_record_count_ = 0
         THEN [handled |-> TRUE,
               out |-> Outcome(p, FALSE, FALSE, HasChanges(p.order_book_), NoRow)]
         ELSE LET p1 == [p EXCEPT !.order_book_ = Clear(@)]
                  mbp_record == CreateMBPRecord(p1, record)
                  w == WriteMBPRecord(p1, mbp_record)
              IN  IF w.threw
                  THEN [handled |-> TRUE,
                        out |-> Outcome(w.p, TRUE, TRUE,
                                        HasChanges(p1.order_book_), NoRow)]
                  ELSE [handled |-> TRUE,
                        out |-> Outcome([w.p EXCEPT !.mbp_record_count_ = @ + 1],
                                        FALSE, TRUE, HasChanges(p1.order_book_),
                                        mbp_record)]
    ELSE [handled |-> FALSE, out |-> Outcome(p, FALSE, FALSE, FALSE, NoRow)]

\* [handled, out]
HandleSpecialCase(p, record) ==
    IF record.action = ACTION_CLEAR
    THEN LET p1 == [p EXCEPT !.order_book_ = Clear(@)]
             mbp_record == CreateMBPRecord(p1, record)
             w == WriteMBPRecord(p1, mbp_record)
         IN  IF w.threw
             THEN [handled |-> TRUE,
                   out |-> Outcome(w.p, TRUE, TRUE, HasChanges(p1.order_book_), NoRow)]
             ELSE [handled |-> TRUE,
                   out |-> Outcome([w.p EXCEPT !.mbp_record_count_ = @ + 1],
                                   FALSE, TRUE, HasChanges(p1.order_book_),
                                   mbp_record)]
    ELSE [handled |-> FALSE, out |-> Outcome(p, FALSE, FALSE, FALSE, NoRow)]

ProcessRecord(p, record) ==
    LET h == HandleSpecialCase(p, record)
    IN  IF h.handled THEN h.out
        ELSE LET a == Apply(p.order_book_, record)
                 p1 == [p EXCEPT !.order_book_ = a.book]
             IN  IF a.threw
                 THEN Outcome(p1, TRUE, FALSE, HasChanges(a.book), NoRow)
                 ELSE IF /\ record.action \in {ACTION_ADD, ACTION_CANCEL,
                                               ACTION_CLEAR, ACTION_TRADE}
                         /\ HasChanges(p1.order_book_)
                 THEN LET mbp_record == CreateMBPRecord(p1, record)
                          w == WriteMBPRecord(p1, mbp_record)
                      IN  IF w.threw
                          THEN Outcome(w.p, TRUE, TRUE, TRUE, NoRow)
                          ELSE Outcome(
                                 [w.p EXCEPT !.order_book_ = ResetChanges(@),
                                             !.mbp_record_count_ = @ + 1],
                                 FALSE, TRUE, TRUE, mbp_record)
                 ELSE Outcome(p1, FALSE, TRUE, HasChanges(p1.order_book_), NoRow)

\* The loop of ProcessFile over a whole input: the members after the last
\* line (an exception is caught and the loop goes on).
RECURSIVE ProcessFile(_, _)
ProcessFile(p, records) ==
    IF records = <<>> THEN p
    ELSE ProcessFile(ProcessRecord(p, Head(records)).p, Tail(records))

\* ------------------------------------------------------------------- state
VARIABLES
    order_book_,        \* MBOProcessor::order_book_
    mbp_record_count_,  \* MBOProcessor::mbp_record_count_
    output_buffer_,     \* the index column of the lines written so far
    line_no,            \* input lines consumed by the loop of ProcessFile
    call                \* what the latest loop iteration did

vars == <<order_book_, mbp_record_count_, output_buffer_, line_no, call>>

Members ==
    [order_book_ |-> order_book_, mbp_record_count_ |-> mbp_record_count_,
     output_buffer_ |-> output_buffer_]

\* What the latest iteration did: the record it parsed, what
\* order_lookup_.find(record.order_id) gave before the call (NotFound for
\* end()), whether ProcessRecord returned or threw, has_changes_ as it stood
\* when Apply had returned, and the line written.
NotFound == [price |-> 0, side |-> ""]
Find(b, order_id) ==
    IF order_id \in DOMAIN b.order_lookup_ THEN b.order_lookup_[order_id]
    ELSE NotFound
NoCall ==
    [action |-> "", record |-> MBORecord("", "", 0, 0, 0), it |-> NotFound,
     result |-> "none", dirty |-> FALSE, row |-> NoRow]

Init ==
    /\ order_book_ = NewProcessor.order_book_
    /\ mbp_record_count_ = NewProcessor.mbp_record_count_
    /\ output_buffer_ = NewProcessor.output_buffer_
    /\ line_no = 0
    /\ call = NoCall

\* One iteration of the loop of ProcessFile on a line that parses: the
\* record goes through ProcessRecord, and an exception is caught and logged.
ProcessLine ==
    /\ line_no < MaxEvents
    /\ \E record \in StreamRecords :
         \E out \in {ProcessRecord(Members, record)} :
             /\ order_book_' = out.p.order_book_
             /\ mbp_record_count_' = out.p.mbp_record_count_
             /\ output_buffer_' = out.p.output_buffer_
             /\ line_no' = line_no + 1
             /\ call' = [action |-> record.action, record |-> record,
                         it |-> Find(order_book_, record.order_id),
                         result |-> IF out.threw THEN "error" ELSE "ok",
                         dirty |-> out.dirty,
                         row |-> out.row]

\* One iteration on a line MBORecord::Parse rejects: nothing but the line
\* position changes.
MalformedLine ==
    /\ line_no < MaxEvents
    /\ line_no' = line_no + 1
    /\ call' = [NoCall EXCEPT !.result = "malformed"]
    /\ UNCHANGED <<order_book_, mbp_record_count_, output_buffer_>>

Next == ProcessLine \/ MalformedLine

Spec == Init /\ [][Next]_vars

\* ------------------------------------------------------------------ claims
\* What Apply may mutate besides the dirty flag.
BookPart(b) == <<b.bids_, b.asks_, b.order_lookup_>>

RECURSIVE SumOf(_, _)
SumOf(f, S) ==
    IF S = {} THEN 0
    ELSE LET k == CHOOSE x \in S : TRUE IN f[k] + SumOf(f, S \ {k})

SideBook(b, side) == IF side = BID_SIDE THEN b.bids_ ELSE b.asks_

IndexToLevels(b) ==
    \A oid \in DOMAIN b.order_lookup_ :
        LET loc == b.order_lookup_[oid]
        IN  /\ loc.side \in {BID_SIDE, ASK_SIDE}
            /\ loc.price \in DOMAIN SideBook(b, loc.side)
            /\ ~PriceLevel_IsEmpty(SideBook(b, loc.side)[loc.price])
            /\ oid \in DOMAIN SideBook(b, loc.side)[loc.price].orders
            /\ SideBook(b, loc.side)[loc.price].orders[oid] > 0

LevelsToIndex(b) ==
    \A side \in {BID_SIDE, ASK_SIDE} :
        \A p \in DOMAIN SideBook(b, side) :
            \A oid \in DOMAIN SideBook(b, side)[p].orders :
                /\ oid \in DOMAIN b.order_lookup_
                /\ b.order_lookup_[oid] = OrderLocation(p, side)

\* C1: index coherence. Every entry oid -> (p, s) of the order index has a
\* non-empty level at p in the s-side book holding oid with a positive size,
\* and every oid held by a level is in the index with that level's price and
\* side; in every state reached by valid events, whether Apply returned or
\* threw.
C1_IndexCoherence ==
    IndexToLevels(order_book_) /\ LevelsToIndex(order_book_)

\* C2: level sum. Every level of either side book has total_size equal to
\* the sum of the sizes in its orders map and order_count equal to the
\* number of its entries.
C2_LevelSum ==
    \A side \in {BID_SIDE, ASK_SIDE} :
        \A p \in DOMAIN SideBook(order_book_, side) :
            LET level == SideBook(order_book_, side)[p]
            IN  /\ level.total_size = SumOf(level.orders, DOMAIN level.orders)
                /\ level.order_count = Cardinality(DOMAIN level.orders)

\* C3: atomicity of Apply. In every reachable state and for every record,
\* an Apply that ends with an error leaves the bid book, the ask book and
\* the order index exactly as they were.
C3_ApplyAtomic ==
    \A record \in MBORecords :
        LET a == Apply(order_book_, record)
        IN  a.threw => BookPart(a.book) = BookPart(order_book_)

AllSlotsEmpty(row) ==
    \A i \in Slots :
        /\ row.bid_prices[i] = kUndefPrice /\ row.bid_sizes[i] = 0
        /\ row.bid_counts[i] = 0
        /\ row.ask_prices[i] = kUndefPrice /\ row.ask_sizes[i] = 0
        /\ row.ask_counts[i] = 0

BookEmpty(b) ==
    b.bids_ = EmptyMap /\ b.asks_ = EmptyMap /\ b.order_lookup_ = EmptyMap

\* C4: emission rule. In every reachable state and for every record of the
\* stream, ProcessRecord writes a line iff the action is Clear, or the
\* action is Add, Cancel or Trade and the dirty flag is set once Apply has
\* returned; Modify, Fill and None never write one.
C4_EmissionRule ==
    \A record \in StreamRecords :
        LET out == ProcessRecord(Members, record)
        IN  (out.row # NoRow) <=>
              \/ record.action = ACTION_CLEAR
              \/ /\ record.action \in {ACTION_ADD, ACTION_CANCEL, ACTION_TRADE}
                 /\ out.applied /\ out.dirty

\* C5: change gating. A line is written for an Add, Cancel or Trade only
\* when that very record changed the side books or the order index, and the
\* dirty flag the processor reads after Apply is set exactly when that
\* Apply changed them.
C5_ChangeGating ==
    \A record \in StreamRecords :
        LET out == ProcessRecord(Members, record)
            changed == BookPart(out.p.order_book_) # BookPart(order_book_)
        IN  /\ (out.row # NoRow /\ record.action \in
                  {ACTION_ADD, ACTION_CANCEL, ACTION_TRADE}) => changed
            /\ (out.applied /\ record.action # ACTION_CLEAR) =>
                  (out.dirty <=> changed)

\* C6: Trade never emits. In every reachable state, processing a Trade
\* writes no line.
C6_TradeNeverEmits ==
    \A record \in StreamRecords :
        record.action = ACTION_TRADE =>
            ProcessRecord(Members, record).row = NoRow

\* C7: dirty is cleared after every emission. Whenever the latest record
\* had a line written, the dirty flag is clear when its processing ends.
C7_DirtyClearedAfterEmission ==
    call.row # NoRow => ~HasChanges(order_book_)

\* C8: row index. The k-th line written (0-based) carries index k, and a
\* step either writes nothing or appends exactly one line, for the record it
\* processed, after all earlier lines.
C8_RowIndex ==
    [][/\ \A k \in 1..Len(output_buffer_') : output_buffer_'[k] = k - 1
       /\ \/ output_buffer_' = output_buffer_ /\ call'.row = NoRow
          \/ /\ output_buffer_' = Append(output_buffer_, Len(output_buffer_))
             /\ call'.row # NoRow]_vars

\* C8 witness: three lines consumed, one of them without a line written,
\* and the latest record wrote the second line.
C8_Witness ==
    line_no = 3 /\ Len(output_buffer_) = 2 /\ call.row # NoRow

\* C9: Clear always emits. Whenever a Clear record is processed, in any
\* state, exactly one line is written; it shows the empty book (every bid
\* and ask slot (UNDEF, 0, 0)), action R and depth 0.
C9_ClearAlwaysEmits ==
    [][call'.action = ACTION_CLEAR =>
          /\ call'.row # NoRow
          /\ Len(output_buffer_') = Len(output_buffer_) + 1
          /\ AllSlotsEmpty(call'.row)
          /\ call'.row.action = ACTION_CLEAR
          /\ call'.row.depth = 0]_vars

\* The case of C10: the first record of the stream is a valid Cancel (no
\* order is known yet).
C10_Witness ==
    line_no = 1 /\ call.action = ACTION_CANCEL /\ call.result = "ok"

\* C10 as stated: such a Cancel writes exactly one line, with every price
\* slot empty and depth 1, and the book stays empty.
C10_CancelUnknownEmits ==
    C10_Witness =>
        /\ Len(output_buffer_) = 1
        /\ call.row # NoRow
        /\ AllSlotsEmpty(call.row) /\ call.row.depth = 1
        /\ BookEmpty(order_book_)

\* C10 as amended: such a Cancel writes no line; the book stays empty and
\* the dirty flag stays clear.
C10_CancelUnknownSilent ==
    C10_Witness =>
        /\ output_buffer_ = <<>> /\ mbp_record_count_ = 0
        /\ call.row = NoRow
        /\ BookEmpty(order_book_)
        /\ ~HasChanges(order_book_)

\* C11: a duplicate Add is rejected without effect. Whenever the record
\* processed is an Add whose order_id is already in the order index, the
\* call ends with an error, the side books, the order index and the dirty
\* flag are unchanged, no line is written, the row index does not advance,
\* and the loop moves on to the next line. For A,B,1,10,2 then A,B,1,10,3
\* one line is written and the bid level at 10 holds total_size 2,
\* order_count 1.
C11_DuplicateAddRejected ==
    /\ LET p == ProcessFile(NewProcessor,
                   <<MBORecord(ACTION_ADD, BID_SIDE, 10, 2, 1),
                     MBORecord(ACTION_ADD, BID_SIDE, 10, 3, 1)>>)
       IN  /\ p.mbp_record_count_ = 1 /\ p.output_buffer_ = <<0>>
           /\ DOMAIN p.order_book_.bids_ = {10}
           /\ p.order_book_.bids_[10].total_size = 2
           /\ p.order_book_.bids_[10].order_count = 1
           /\ p.order_book_.bids_[10].orders = MapPut(EmptyMap, 1, 2)
    /\ [][(call'.action = ACTION_ADD /\ call'.it # NotFound) =>
            /\ call'.result = "error"
            /\ order_book_' = order_book_
            /\ mbp_record_count_' = mbp_record_count_
            /\ output_buffer_' = output_buffer_
            /\ call'.row = NoRow
            /\ line_no' = line_no + 1]_vars

\* C11 witness: a valid Add with side B or A was rejected, and the order it
\* names still rests where the index had it, away from the Add's price.
C11_Witness ==
    /\ call.action = ACTION_ADD /\ call.result = "error"
    /\ IsValid(call.record) /\ call.record.side \in {BID_SIDE, ASK_SIDE}
    /\ call.it # NotFound /\ call.it.price # call.record.price
    /\ Find(order_book_, call.record.order_id) = call.it

\* C12: Clear nullifies. In every reachable state, Apply of a Clear record
\* (one that passes record validation) returns with the bid book, the ask
\* book and the order index empty and the dirty flag set; and whenever the
\* record processed is a Clear, the book is left in that state.
C12_ClearNullifies ==
    /\ [](\A record \in ClearRecords :
            IsValid(record) =>
                LET a == Apply(order_book_, record)
                IN  ~a.threw /\ BookEmpty(a.book) /\ HasChanges(a.book))
    /\ [][call'.action = ACTION_CLEAR =>
            BookEmpty(order_book_') /\ HasChanges(order_book_')]_vars

\* C12 witness: a Clear was processed while order 1 was resting, and the
\* book is empty.
C12_Witness ==
    /\ call.action = ACTION_CLEAR /\ call.it # NotFound
    /\ BookEmpty(order_book_) /\ HasChanges(order_book_)

\* The Cancel records of an order: every side and price the event may
\* carry, which CancelOrder does not read.
CancelsOf(order_id) ==
    {MBORecord(ACTION_CANCEL, s, p, 1, order_id) :
        s \in {BID_SIDE, ASK_SIDE, NEUTRAL_SIDE}, p \in Prices}

\* C13: Add/Cancel round trip. In every reachable state, for every Add with
\* side B or A of an order_id not in the order index and every Cancel of
\* that order_id, Apply of the Add followed by Apply of the Cancel returns
\* with the bid book, the ask book and the order index exactly as they were
\* before the Add.
C13_AddCancelRoundTrip ==
    \A add \in RestingRecords \cup LargeRecords :
        (add.action = ACTION_ADD /\ Find(order_book_, add.order_id) = NotFound) =>
            \A cancel \in CancelsOf(add.order_id) :
                LET a == Apply(order_book_, add)
                    c == Apply(a.book, cancel)
                IN  /\ ~a.threw /\ ~c.threw
                    /\ BookPart(c.book) = BookPart(order_book_)

\* The k of a top-k query: none, fewer than, as many as and more than the
\* levels a side can hold.
TopKs == 0..(MaxPrice + 1)

NonEmptyPrices(side_book) ==
    {p \in DOMAIN side_book : ~PriceLevel_IsEmpty(side_book[p])}

\* result is the top-k answer for side_book: min(k, non-empty levels)
\* tuples, each the (price, total_size, order_count) of a non-empty level
\* stored under that price, strictly ordered (Better(p, q): p comes before
\* q), and no non-empty level left out is better than one returned.
TopKOf(result, side_book, k, Better(_, _)) ==
    LET ne == NonEmptyPrices(side_book)
        n == Cardinality(ne)
    IN  /\ Len(result) = (IF k < n THEN k ELSE n)
        /\ \A i \in 1..Len(result) :
             /\ result[i].price \in ne
             /\ result[i] = CompactPriceLevel(side_book[result[i].price])
             /\ result[i].price # kUndefPrice /\ result[i].count > 0
        /\ \A i, j \in 1..Len(result) :
             i < j => Better(result[i].price, result[j].price)
        /\ \A p \in ne :
             (\A i \in 1..Len(result) : result[i].price # p) =>
                 \A i \in 1..Len(result) : Better(result[i].price, p)

Higher(p, q) == p > q
Lower(p, q) == p < q

\* C14: top-k result. In every reachable state and for every k,
\* GetTopBids(k) is min(k, non-empty bid levels) tuples (price, total_size,
\* order_count) in strictly decreasing price order, exactly the k
\* highest-priced non-empty bid levels; GetTopAsks(k) the k lowest-priced
\* non-empty ask levels in strictly increasing order; no returned level is
\* empty.
C14_TopK ==
    \A k \in TopKs :
        /\ TopKOf(GetTopBids(order_book_, k), order_book_.bids_, k, Higher)
        /\ TopKOf(GetTopAsks(order_book_, k), order_book_.asks_, k, Lower)

\* C14 witness: two non-empty bid levels, so that k = 1 cuts the bid side
\* short and k = 2 returns both in decreasing order.
C14_Witness ==
    /\ Cardinality(NonEmptyPrices(order_book_.bids_)) = 2
    /\ Len(GetTopBids(order_book_, 2)) = 2
    /\ Len(GetTopBids(order_book_, 1)) = 1
    /\ GetTopBids(order_book_, 1)[1].price = MaxPrice

\* The ten bid slots and ten ask slots of a line.
SlotsOf(row) ==
    <<row.bid_prices, row.bid_sizes, row.bid_counts,
      row.ask_prices, row.ask_sizes, row.ask_counts>>

\* Bid slot i of a line as (price, size, count).
BidSlot(row, i) == <<row.bid_prices[i], row.bid_sizes[i], row.bid_counts[i]>>
AskSlot(row, i) == <<row.ask_prices[i], row.ask_sizes[i], row.ask_counts[i]>>

\* C15: a snapshot shows the post-event book. Whenever the latest record
\* had a line written, its bid and ask slots are GetTopBids(10) and
\* GetTopAsks(10) of the book as that record left it (the book of the state
\* the step ends in, not the one it started from). For A,B,1,10,3 / A,B,2,11,4 /
\* A,B,3,9,1 the third line has bid slots (11,4,1), (10,3,1), (9,1,1) and
\* every other slot empty.
C15_SnapshotPostEvent ==
    /\ LET p2 == ProcessFile(NewProcessor,
                    <<MBORecord(ACTION_ADD, BID_SIDE, 10, 3, 1),
                      MBORecord(ACTION_ADD, BID_SIDE, 11, 4, 2)>>)
           out == ProcessRecord(p2, MBORecord(ACTION_ADD, BID_SIDE, 9, 1, 3))
       IN  /\ out.p.output_buffer_ = <<0, 1, 2>>
           /\ out.row # NoRow
           /\ BidSlot(out.row, 0) = <<11, 4, 1>>
           /\ BidSlot(out.row, 1) = <<10, 3, 1>>
           /\ BidSlot(out.row, 2) = <<9, 1, 1>>
           /\ \A i \in Slots \ {0, 1, 2} :
                BidSlot(out.row, i) = <<kUndefPrice, 0, 0>>
           /\ \A i \in Slots : AskSlot(out.row, i) = <<kUndefPrice, 0, 0>>
    /\ call.row # NoRow =>
           SlotsOf(call.row) =
               SlotsOf(FromOrderBook(call.record,
                                     GetTopBids(order_book_, MBP_LEVELS),
                                     GetTopAsks(order_book_, MBP_LEVELS)))

\* C15 witness: the Add of a new order made the second bid level, and the
\* line written for it shows both levels.
C15_Witness ==
    /\ call.action = ACTION_ADD /\ call.it = NotFound /\ call.row # NoRow
    /\ BidSlot(call.row, 0)[1] = 2 /\ BidSlot(call.row, 1)[1] = 1
    /\ Cardinality(NonEmptyPrices(order_book_.bids_)) = 2

\* The levels of a book other than the one at (side, price).
OtherLevels(b, side, price) ==
    <<[p \in (DOMAIN SideBook(b, side)) \ {price} |-> SideBook(b, side)[p]],
      IF side = BID_SIDE THEN b.asks_ ELSE b.bids_>>

\* from has a level at loc holding order_id, and to has that level less the
\* order: total_size lower by the order's stored size, order_count lower by
\* one, the level dropped if that emptied it; no other level differs.
OrderLeft(from, to, loc, order_id) ==
    /\ loc.side \in {BID_SIDE, ASK_SIDE}
    /\ loc.price \in DOMAIN SideBook(from, loc.side)
    /\ order_id \in DOMAIN SideBook(from, loc.side)[loc.price].orders
    /\ LET level == SideBook(from, loc.side)[loc.price]
       IN  IF level.order_count = 1
           THEN loc.price \notin DOMAIN SideBook(to, loc.side)
           ELSE /\ loc.price \in DOMAIN SideBook(to, loc.side)
                /\ SideBook(to, loc.side)[loc.price] =
                     [level EXCEPT
                        !.total_size = @ - level.orders[order_id],
                        !.order_count = @ - 1,
                        !.orders = MapErase(@, order_id)]
    /\ OtherLevels(to, loc.side, loc.price) =
           OtherLevels(from, loc.side, loc.price)

\* C16: Cancel uses the stored location. Whenever the record processed is
\* a Cancel of an order_id in the order index, the order leaves the level at
\* the price and side the index recorded, whatever price and side the
\* record carries: that level's total_size drops by the stored size and its
\* order_count by one, it is dropped if that emptied it, the index entry is
\* erased, dirty is set, and no other level changes.
C16_CancelStoredLocation ==
    [][(call'.action = ACTION_CANCEL /\ call'.it # NotFound) =>
          /\ OrderLeft(order_book_, order_book_', call'.it,
                       call'.record.order_id)
          /\ order_book_'.order_lookup_ =
                 MapErase(order_book_.order_lookup_, call'.record.order_id)
          /\ call'.dirty]_vars

ModifyRecords == {r \in StreamRecords : r.action = ACTION_MODIFY}

\* C17: Modify of an unknown order equals Add. In every reachable state and
\* for every Modify record whose order_id is not in the order index, Apply
\* leaves the side books, the order index and the dirty flag exactly as
\* Apply of the Add with the same side, price, size and order_id would, and
\* throws in exactly the same cases.
C17_ModifyUnknownIsAdd ==
    \A record \in ModifyRecords :
        Find(order_book_, record.order_id) = NotFound =>
            Apply(order_book_, record) =
                Apply(order_book_, [record EXCEPT !.action = ACTION_ADD])

\* C17 witness: a Modify of an order the index did not have was processed,
\* and the order now rests at the record's side and price with its size.
C17_Witness ==
    /\ call.action = ACTION_MODIFY /\ call.it = NotFound
    /\ call.result = "ok"
    /\ Find(order_book_, call.record.order_id) =
           OrderLocation(call.record.price, call.record.side)
    /\ SideBook(order_book_, call.record.side)[call.record.price]
           .orders[call.record.order_id] = call.record.size

\* C18: Modify in place. Whenever the record processed is a valid Modify of
\* an order_id in the order index whose side and price equal the stored
\* location, the level's total_size becomes total_size - old_size +
\* new_size, the stored size of the order becomes new_size, the level's
\* order_count, the set of levels and the order index are unchanged, and
\* dirty is set.
C18_ModifyInPlace ==
    [][(/\ call'.action = ACTION_MODIFY /\ IsValid(call'.record)
        /\ call'.it = OrderLocation(call'.record.price, call'.record.side)) =>
          LET record == call'.record
              side_book == SideBook(order_book_, record.side)
          IN  /\ record.price \in DOMAIN side_book
              /\ record.order_id \in DOMAIN side_book[record.price].orders
              /\ LET level == side_book[record.price]
                     old_size == level.orders[record.order_id]
                 IN  <<order_book_'.bids_, order_book_'.asks_>> =
                       LET b == StoreLevel(order_book_, record.side, record.price,
                                  [level EXCEPT
                                     !.total_size = @ - old_size + record.size,
                                     !.orders = MapPut(@, record.order_id,
                                                       record.size)])
                       IN  <<b.bids_, b.asks_>>
              /\ order_book_'.order_lookup_ = order_book_.order_lookup_
              /\ call'.dirty]_vars

\* The (side, price) pairs whose level in b holds order_id.
RestsAt(b, order_id) ==
    {<<side, p>> \in {BID_SIDE, ASK_SIDE} \X (DOMAIN b.bids_ \cup DOMAIN b.asks_) :
        /\ p \in DOMAIN SideBook(b, side)
        /\ order_id \in DOMAIN SideBook(b, side)[p].orders}

\* C19: Modify across price or side. Whenever the record processed is a
\* valid Modify with side B or A of an order_id in the order index whose
\* (side, price) differs from the stored location, afterwards the order
\* rests only at the record's (side, price), with the record's size; the
\* old level has lost exactly that order and is dropped if that emptied it;
\* the index maps the order_id to the new (price, side); dirty is set. For
\* A,A,1,p=20,sz=5 then M,A,1,p=21,sz=7 the ask top is (21, 7, 1) and there
\* is no level at 20.
C19_ModifyMoves ==
    /\ LET p == ProcessFile(NewProcessor,
                   <<MBORecord(ACTION_ADD, ASK_SIDE, 20, 5, 1),
                     MBORecord(ACTION_MODIFY, ASK_SIDE, 21, 7, 1)>>)
       IN  /\ GetTopAsks(p.order_book_, MBP_LEVELS) =
                  <<[price |-> 21, size |-> 7, count |-> 1]>>
           /\ 20 \notin DOMAIN p.order_book_.asks_
    /\ [][(/\ call'.action = ACTION_MODIFY /\ IsValid(call'.record)
           /\ call'.record.side \in {BID_SIDE, ASK_SIDE}
           /\ call'.it # NotFound
           /\ call'.it # OrderLocation(call'.record.price, call'.record.side)) =>
             LET record == call'.record
                 old == call'.it
                 old_book == SideBook(order_book_, old.side)
             IN  /\ RestsAt(order_book_', record.order_id) =
                        {<<record.side, record.price>>}
                 /\ SideBook(order_book_', record.side)[record.price]
                        .orders[record.order_id] = record.size
                 /\ old.price \in DOMAIN old_book
                 /\ record.order_id \in DOMAIN old_book[old.price].orders
                 /\ IF old_book[old.price].order_count = 1
                    THEN old.price \notin DOMAIN SideBook(order_book_', old.side)
                    ELSE /\ old.price \in DOMAIN SideBook(order_book_', old.side)
                         /\ SideBook(order_book_', old.side)[old.price] =
                              [old_book[old.price] EXCEPT
                                 !.total_size = @ - old_book[old.price]
                                                      .orders[record.order_id],
                                 !.order_count = @ - 1,
                                 !.orders = MapErase(@, record.order_id)]
                 /\ order_book_'.order_lookup_ =
                        MapPut(order_book_.order_lookup_, record.order_id,
                               OrderLocation(record.price, record.side))
                 /\ call'.dirty]_vars

\* The Trade, Fill and None records, with every side and price.
TradeFillNone ==
    {MBORecord(a, s, p, 1, oid) :
        a \in {ACTION_TRADE, ACTION_FILL, ACTION_NONE}, s \in SideChars,
        p \in {0} \cup Prices, oid \in OrderIds}

\* C20: Trade, Fill and None are book-transparent. In every reachable state,
\* Apply of a valid Trade, Fill or None record returns with the bid book,
\* the ask book, the order index and the dirty flag all unchanged.
C20_Transparent ==
    \A record \in TradeFillNone :
        IsValid(record) =>
            Apply(order_book_, record) = Returned(order_book_)

\* C20 witness: a Trade, Fill or None was processed on a book holding both
\* orders, with the dirty flag clear before and after.
C20_Witness ==
    /\ call.action \in {ACTION_TRADE, ACTION_FILL, ACTION_NONE}
    /\ call.result = "ok" /\ ~call.dirty /\ call.row = NoRow
    /\ DOMAIN order_book_.order_lookup_ = OrderIds
    /\ ~HasChanges(order_book_)

\* C21: no empty level is ever kept. In every state reached by processing
\* records, whether each call returned or threw, neither side book holds a
\* level with order_count = 0.
C21_NoEmptyLevel ==
    \A side \in {BID_SIDE, ASK_SIDE} :
        \A p \in DOMAIN SideBook(order_book_, side) :
            SideBook(order_book_, side)[p].order_count # 0

\* C22: a failing line is skipped without effect. Whenever the processing
\* of a record ends with an error, the side books, the order index, the
\* dirty flag and the row counter are exactly as before that record and no
\* line is written for it (so that the records after it are processed from
\* the state the records before it had left).
C22_FailingLineSkipped ==
    [][call'.result = "error" =>
          /\ order_book_' = order_book_
          /\ mbp_record_count_' = mbp_record_count_
          /\ output_buffer_' = output_buffer_
          /\ call'.row = NoRow]_vars

\* A top-10 sequence of n tuples, pairwise different in price, size and
\* count.
LevelSeq(n, first) ==
    [i \in 1..n |-> [price |-> first + i, size |-> i, count |-> n + 1 - i]]

\* row is the projection of record over bids and asks: rtype 10, depth 1
\* for a Cancel and 0 otherwise, action, side, price, size and order_id of
\* the record, and slot i from the i-th tuple when there is one, (UNDEF, 0,
\* 0) otherwise.
ProjectedAs(row, record, bids, asks) ==
    /\ row.rtype = 10
    /\ row.depth = (IF record.action = ACTION_CANCEL THEN 1 ELSE 0)
    /\ row.action = record.action /\ row.side = record.side
    /\ row.price = record.price /\ row.size = record.size
    /\ row.order_id = record.order_id
    /\ \A i \in Slots :
         /\ BidSlot(row, i) =
              (IF i < Len(bids)
               THEN <<bids[i + 1].price, bids[i + 1].size, bids[i + 1].count>>
               ELSE <<kUndefPrice, 0, 0>>)
         /\ AskSlot(row, i) =
              (IF i < Len(asks)
               THEN <<asks[i + 1].price, asks[i + 1].size, asks[i + 1].count>>
               ELSE <<kUndefPrice, 0, 0>>)

\* C23: projector output. For every record and every pair of top-10
\* sequences (0 to 10 tuples each), FromOrderBook gives rtype 10, depth 1
\* iff the action is Cancel, the record's action, side, price, size and
\* order_id, and slot i from the i-th tuple or (UNDEF, 0, 0); and every
\* line written is that projection of its record over the book's top ten.
C23_ProjectorOutput ==
    /\ \A record \in StreamRecords :
         \A nb, na \in 0..MBP_LEVELS :
             ProjectedAs(FromOrderBook(record, LevelSeq(nb, 100),
                                       LevelSeq(na, 200)),
                         record, LevelSeq(nb, 100), LevelSeq(na, 200))
    /\ [](call.row # NoRow =>
            ProjectedAs(call.row, call.record,
                        GetTopBids(order_book_, MBP_LEVELS),
                        GetTopAsks(order_book_, MBP_LEVELS)))

\* C23 witness: a line was written for a Cancel that left a bid level and
\* no ask level: depth 1, bid slot 0 filled, ask slot 0 empty.
C23_Witness ==
    /\ call.action = ACTION_CANCEL /\ call.row # NoRow
    /\ call.row.depth = 1
    /\ BidSlot(call.row, 0)[1] # kUndefPrice
    /\ AskSlot(call.row, 0) = <<kUndefPrice, 0, 0>>

\* What the caches may hold when a query is called: nothing, or what an
\* earlier call on another book left there.
StaleCaches ==
    {Caches(c, c) : c \in {<<>>, LevelSeq(1, 100), LevelSeq(MBP_LEVELS, 100)}}

\* C24: top-N idempotence. In every reachable state and whatever the caches
\* hold, two consecutive GetTopBids(10) calls, the second on the object as
\* the first left it, return identical sequences (the one GetTopBids
\* gives); likewise GetTopAsks(10).
C24_TopNIdempotent ==
    \A caches \in StaleCaches :
        LET b1 == Call_GetTopBids(order_book_, caches, MBP_LEVELS)
            b2 == Call_GetTopBids(b1.book, b1.caches, MBP_LEVELS)
            a1 == Call_GetTopAsks(order_book_, caches, MBP_LEVELS)
            a2 == Call_GetTopAsks(a1.book, a1.caches, MBP_LEVELS)
        IN  /\ b2.result = b1.result
            /\ b1.result = GetTopBids(order_book_, MBP_LEVELS)
            /\ a2.result = a1.result
            /\ a1.result = GetTopAsks(order_book_, MBP_LEVELS)

\* C24 witness: a line was written (both queries were called) on a book
\* with a non-empty level on each side.
C24_Witness ==
    /\ call.row # NoRow
    /\ NonEmptyPrices(order_book_.bids_) # {}
    /\ NonEmptyPrices(order_book_.asks_) # {}

\* C25: reads do not change state. In every reachable state GetTopBids,
\* GetTopAsks, GetStatistics, GetBestBidAsk and HasChanges leave the bid
\* book, the ask book, the order index and the dirty flag as they were;
\* ResetChanges clears the flag and nothing else; and a step in which the
\* flag goes from set to clear is one that wrote a line on the branch that
\* calls ResetChanges.
C25_ReadsDoNotChangeState ==
    /\ [](\A caches \in StaleCaches :
            /\ \A k \in TopKs \cup {MBP_LEVELS} :
                 /\ Call_GetTopBids(order_book_, caches, k).book = order_book_
                 /\ Call_GetTopAsks(order_book_, caches, k).book = order_book_
            /\ Call_GetStatistics(order_book_, caches).book = order_book_
            /\ Call_GetBestBidAsk(order_book_, caches).book = order_book_
            /\ Call_HasChanges(order_book_, caches).book = order_book_
            /\ Call_ResetChanges(order_book_, caches).book =
                   [order_book_ EXCEPT !.has_changes_ = FALSE])
    /\ [][(HasChanges(order_book_) /\ ~HasChanges(order_book_')) =>
            /\ call'.row # NoRow
            /\ call'.action \in {ACTION_ADD, ACTION_CANCEL, ACTION_TRADE}]_vars

\* C25 witness: a Modify moved an order while the flag was already set; the
\* processor read nothing that cleared it, and no line was written.
C25_Witness ==
    /\ call.action = ACTION_MODIFY /\ call.result = "ok"
    /\ call.it # NotFound /\ call.row = NoRow
    /\ HasChanges(order_book_)
    /\ NonEmptyPrices(order_book_.bids_) # {}

\* The orders resting in the levels of a book, each with its place.
RestingOrders(b) ==
    {<<side, p, oid>> \in {BID_SIDE, ASK_SIDE}
                          \X (DOMAIN b.bids_ \cup DOMAIN b.asks_) \X OrderIds :
        /\ p \in DOMAIN SideBook(b, side)
        /\ oid \in DOMAIN SideBook(b, side)[p].orders}

\* C26: statistics agree with the book. In every reachable state
\* GetStatistics returns the number of non-empty bid levels, the number of
\* non-empty ask levels, the number of orders resting in levels, and as
\* best_bid / best_ask the price of the first tuple of GetTopBids(1) /
\* GetTopAsks(1), or UNDEF when that side has no non-empty level.
C26_StatisticsAgree ==
    LET stats == GetStatistics(order_book_)
        top_bid == GetTopBids(order_book_, 1)
        top_ask == GetTopAsks(order_book_, 1)
    IN  /\ stats.total_bid_levels =
               Cardinality(NonEmptyPrices(order_book_.bids_))
        /\ stats.total_ask_levels =
               Cardinality(NonEmptyPrices(order_book_.asks_))
        /\ stats.total_orders = Cardinality(RestingOrders(order_book_))
        /\ stats.best_bid =
               (IF top_bid # <<>> THEN top_bid[1].price ELSE kUndefPrice)
        /\ stats.best_ask =
               (IF top_ask # <<>> THEN top_ask[1].price ELSE kUndefPrice)

\* The tuple a top-10 query returns for the level at price p, if any.
TupleAt(top, p) == {top[i] : i \in {j \in 1..Len(top) : top[j].price = p}}

\* C27: a level total does not wrap. In every reachable state, a level
\* whose orders' sizes sum to 2^32 or more has that exact sum as its
\* total_size, and the tuple a top-10 query returns for it (the snapshot
\* slot) shows that sum.
C27_TotalDoesNotWrap ==
    \A side \in {BID_SIDE, ASK_SIDE} :
        \A p \in DOMAIN SideBook(order_book_, side) :
            LET level == SideBook(order_book_, side)[p]
                sum == SumOf(level.orders, DOMAIN level.orders)
                top == IF side = BID_SIDE
                       THEN GetTopBids(order_book_, MBP_LEVELS)
                       ELSE GetTopAsks(order_book_, MBP_LEVELS)
            IN  sum >= SizeMod =>
                    /\ level.total_size = sum
                    /\ \A t \in TupleAt(top, p) : t.size = sum

C29_CancelUnknownNoOp ==
    \A oid \in OrderIds :
        Find(order_book_, oid) = NotFound =>
            \A cancel \in CancelsOf(oid) :
                LET a == Apply(order_book_, cancel)
                IN  ~a.threw /\ BookPart(a.book) = BookPart(order_book_)

\* C29 witness: a Cancel of an order the index did not have was processed
\* without error on a book holding the other order.
C29_Witness ==
    /\ call.action = ACTION_CANCEL /\ call.it = NotFound
    /\ call.result = "ok"
    /\ DOMAIN order_book_.order_lookup_ = OrderIds \ {call.record.order_id}
    /\ NonEmptyPrices(order_book_.bids_) \cup NonEmptyPrices(order_book_.asks_) # {}

\* C30: price level add rejects duplicates. For every level of a reachable
\* book, every order id the level already contains and every size,
\* PriceLevel::AddOrder leaves the level's orders map, total_size and
\* order_count unchanged, so the level still has the sum of its orders'
\* sizes as total_size and their number as order_count.
C30_LevelAddRejectsDuplicate ==
    \A side \in {BID_SIDE, ASK_SIDE} :
        \A p \in DOMAIN SideBook(order_book_, side) :
            LET level == SideBook(order_book_, side)[p]
            IN  \A oid \in DOMAIN level.orders : \A size \in Sizes :
                    LET added == PriceLevel_AddOrder(level, oid, size)
                    IN  /\ added = level
                        /\ added.total_size =
                               SumOf(added.orders, DOMAIN added.orders)
                        /\ added.order_count =
                               Cardinality(DOMAIN added.orders)

\* The events of C31: a valid Trade, or a valid Cancel of an order id the
\* index did not hold when the event arrived.
NonMutating(c) ==
    /\ IsValid(c.record)
    /\ \/ c.action = ACTION_TRADE
       \/ c.action = ACTION_CANCEL /\ c.it = NotFound

\* A successfully processed book-changing event: an Add, a Cancel of an
\* order in the index, a Modify or a Clear whose line ended without an error.
BookChanging(c) ==
    /\ c.result = "ok"
    /\ \/ c.action \in {ACTION_ADD, ACTION_MODIFY, ACTION_CLEAR}
       \/ c.action = ACTION_CANCEL /\ c.it # NotFound

\* The line reset the dirty flag (ResetChanges follows the write in
\* ProcessRecord only).
DirtyReset(c) == c.row # NoRow /\ c.action # ACTION_CLEAR

\* C31: the stale dirty flag decides the emission of non-mutating events. A
\* Trade, or a Cancel of an order id not in the index, writes a line if and
\* only if the dirty flag was set when it arrived; the line then shows the
\* unchanged book and the flag is clear afterwards. The flag is set when an
\* event arrives exactly when the last successfully processed book-changing
\* event since the last reset of the flag was a Modify or a Clear: step by
\* step, a reset clears it, a successful book-changing event leaves it set
\* exactly when it is a Modify or a Clear, and any other line leaves it as
\* it was.
C31_StaleDirtyDecides ==
    [][line_no' = line_no + 1 =>
        /\ NonMutating(call') =>
              /\ call'.row # NoRow <=> HasChanges(order_book_)
              /\ call'.row # NoRow =>
                    /\ BookPart(order_book_') = BookPart(order_book_)
                    /\ ProjectedAs(call'.row, call'.record,
                                   GetTopBids(order_book_, MBP_LEVELS),
                                   GetTopAsks(order_book_, MBP_LEVELS))
                    /\ ~HasChanges(order_book_')
        /\ HasChanges(order_book_') <=>
              IF DirtyReset(call') THEN FALSE
              ELSE IF BookChanging(call')
                   THEN call'.action \in {ACTION_MODIFY, ACTION_CLEAR}
                   ELSE HasChanges(order_book_)
      ]_vars

\* Add and Modify records with side Neutral, at every price and size.
NeutralAdds ==
    {MBORecord(a, NEUTRAL_SIDE, p, sz, oid) :
        a \in {ACTION_ADD, ACTION_MODIFY}, p \in Prices, sz \in Sizes,
        oid \in OrderIds}

\* C32: Neutral never rests. In every reachable state every entry of the
\* order index has side Bid or Ask, and Apply of an Add, or of a Modify of an
\* order id not in the index, with side Neutral ends with an error and
\* leaves the bid book, the ask book and the order index as they were (no
\* level and no index entry is created).
C32_NeutralNeverRests ==
    /\ \A oid \in DOMAIN order_book_.order_lookup_ :
          order_book_.order_lookup_[oid].side \in {BID_SIDE, ASK_SIDE}
    /\ \A record \in NeutralAdds :
          (record.action = ACTION_ADD
             \/ Find(order_book_, record.order_id) = NotFound) =>
              LET a == Apply(order_book_, record)
              IN  a.threw /\ BookPart(a.book) = BookPart(order_book_)

\* C32 witness: an Add or a Modify with side Neutral of an order id the index
\* did not hold ended with an error on a book that holds the other order.
C32_Witness ==
    /\ call.action \in {ACTION_ADD, ACTION_MODIFY}
    /\ call.record.side = NEUTRAL_SIDE /\ call.it = NotFound
    /\ call.result = "error"
    /\ DOMAIN order_book_.order_lookup_ = OrderIds \ {call.record.order_id}

\* The populated slots of one side form a prefix.
PopulatedPrefix(prices) ==
    \A i \in Slots : prices[i] = kUndefPrice =>
        \A j \in Slots : j > i => prices[j] = kUndefPrice

\* Every slot with a price has a positive size and a positive count.
SizeCountSet(row) ==
    \A i \in Slots :
        /\ row.bid_prices[i] # kUndefPrice =>
              row.bid_sizes[i] > 0 /\ row.bid_counts[i] > 0
        /\ row.ask_prices[i] # kUndefPrice =>
              row.ask_sizes[i] > 0 /\ row.ask_counts[i] > 0

\* C33: emitted snapshots are well formed. In the line written for the
\* latest record the populated slots of each side form a prefix and every
\* slot with a price other than UNDEF has size > 0 and count > 0; when the
\* snapshot of the book the latest record left has a priced slot with size 0
\* or count 0, no line was written for the record; and a step that writes no
\* line leaves the written lines and mbp_record_count_ as they were.
C33_SnapshotsWellFormed ==
    /\ [](/\ call.row # NoRow =>
              /\ PopulatedPrefix(call.row.bid_prices)
              /\ PopulatedPrefix(call.row.ask_prices)
              /\ SizeCountSet(call.row)
          /\ (call.result \in {"ok", "error"}
                /\ ~SizeCountSet(CreateMBPRecord(Members, call.record))) =>
                  call.row = NoRow)
    /\ [][call'.row = NoRow =>
            /\ output_buffer_' = output_buffer_
            /\ mbp_record_count_' = mbp_record_count_]_vars

\* C33 witness: after a first line was written, the latest Add left a level
\* whose snapshot slot has a price and size 0; the line for it was rejected
\* and the next index is still 1.
C33_Witness ==
    /\ call.action = ACTION_ADD /\ call.result = "error" /\ call.dirty
    /\ call.row = NoRow
    /\ ~SizeCountSet(CreateMBPRecord(Members, call.record))
    /\ output_buffer_ = <<0>> /\ mbp_record_count_ = 1

\* Add records with side Bid or Ask, the large sizes included.
AddRecords ==
    {r \in RestingRecords \cup LargeRecords : r.action = ACTION_ADD}

\* The level at a price of a side book as an Add finds it: total_size and
\* order_count are 0 where the book has no level.
LevelBefore(side_book, price) ==
    IF price \in DOMAIN side_book THEN side_book[price] ELSE DefaultPriceLevel

\* C34: Add touches one level only. In every reachable state, an Apply of an
\* Add{oid, side, price, size} that returns changes only the level at
\* (side, price), whose total_size grows by size and whose order_count grows
\* by one (the level is created if absent), adds exactly the index entry
\* oid -> (price, side), and leaves the opposite side book, every other
\* level of the same side and every other index entry unchanged.
C34_AddTouchesOneLevel ==
    \A add \in AddRecords :
        LET a == Apply(order_book_, add)
            old == SideBook(order_book_, add.side)
            new == SideBook(a.book, add.side)
            before == LevelBefore(old, add.price)
            opposite == IF add.side = BID_SIDE THEN ASK_SIDE ELSE BID_SIDE
        IN  ~a.threw =>
                /\ DOMAIN new = DOMAIN old \cup {add.price}
                /\ \A q \in DOMAIN old \ {add.price} : new[q] = old[q]
                /\ new[add.price].price = add.price
                /\ new[add.price].total_size = before.total_size + add.size
                /\ new[add.price].order_count = before.order_count + 1
                /\ new[add.price].orders =
                       MapPut(before.orders, add.order_id, add.size)
                /\ SideBook(a.book, opposite) = SideBook(order_book_, opposite)
                /\ add.order_id \notin DOMAIN order_book_.order_lookup_
                /\ a.book.order_lookup_ =
                       MapPut(order_book_.order_lookup_, add.order_id,
                              OrderLocation(add.price, add.side))

====
